---------------------------- MODULE Spec2Model ----------------------------
(***************************************************************************)
(* Task_Tracker: an authenticated to-do service (src/app/main.py,          *)
(* src/app/schemas.py).  The state is the two tables (users, todos), the   *)
(* clock against which bearer tokens expire, the tokens handed out by      *)
(* /login, and the requests in flight on the worker threads.  A handler    *)
(* is an operator from the request (and the current tables) to its         *)
(* response and the tables it commits; the action applies it.              *)
(*                                                                         *)
(* Spec     : every request handler runs as one step (requests one after   *)
(*            the other); the clock stands still.                          *)
(* AuthSpec : the same handlers with the clock running, so that tokens     *)
(*            expire, and with every password.                             *)
(* ConcSpec : register / update / delete are split at their database       *)
(*            round trips (query, commit, refresh), so that two requests   *)
(*            served by two worker threads can interleave.                 *)
(*                                                                         *)
(* app/auth.py, app/models.py and app/database.py are not part of the      *)
(* sources at hand; what they do is taken from the specification           *)
(* (sections 3, 4.2, 4.3, 6) and marked as such below.                     *)
(***************************************************************************)
EXTENDS Integers, Sequences, FiniteSets, TLC

VARIABLES users, todos, now, issued, created, registered, threads

vars == <<users, todos, now, issued, created, registered, threads>>

-----------------------------------------------------------------------------
(* Bounds of the model *)

\* ids the todos table hands out: 1..MaxTodos
MaxTodos == 2
\* the clock runs from 0 to MaxTime
MaxTime == 2

\* The fixed lifetime of a token, in clock ticks (specification, section 4.3)
TokenLifetime == 1

Usernames == {"alice", "bob"}
Passwords == {"pw1", "pw2"}
Titles == {"", "t1"}
Descriptions == {"d1"}
TodoIds == 1..MaxTodos
UserIds == 1..Cardinality(Usernames)
Threads == {"w1", "w2"}

\* Python's None for an Optional value is the empty option; a value v is {v}.
None == {}
Some(v) == {v}
Option(S) == {None} \cup {Some(v) : v \in S}

-----------------------------------------------------------------------------
(* JSON request bodies and the pydantic schemas (src/app/schemas.py) *)

\* A member of a JSON object: absent, present with null, or present with a value.
JsonField(S) ==
    {[present |-> FALSE, val |-> None]}
        \cup {[present |-> TRUE, val |-> v] : v \in Option(S)}

\* Bodies a client can send to POST /todos.  A client may add an owner_id
\* member; TodoCreate declares none.
RawCreateBodies ==
    [title : JsonField(Titles), description : JsonField(Descriptions),
     owner_id : JsonField(UserIds)]

\* Bodies a client can send to PUT /todos/{id}.
RawUpdateBodies ==
    [title : JsonField(Titles), description : JsonField(Descriptions),
     completed : JsonField(BOOLEAN)]

\* class TodoCreate: title: str (required); description: str | None = None.
\* Validation fails (422) when title is absent or null; extra members are dropped.
TodoCreateValid(raw) == raw.title.present /\ raw.title.val # None

TodoCreate(raw) ==
    [title |-> CHOOSE t \in raw.title.val : TRUE,
     description |-> IF raw.description.present THEN raw.description.val ELSE None]

\* class TodoUpdate: every field Optional with default None.
TodoUpdate(raw) ==
    [title |-> IF raw.title.present THEN raw.title.val ELSE None,
     description |-> IF raw.description.present THEN raw.description.val ELSE None,
     completed |-> IF raw.completed.present THEN raw.completed.val ELSE None]

\* class UserCreate: username: str, password: str.
UserCreateBodies == [username : Usernames, password : Passwords]

-----------------------------------------------------------------------------
(* app/auth.py, taken from the specification (4.2, 4.3) *)

SECRET_KEY == "server-key"
Salts == {"s1"}

\* hash(plaintext): one-way salted digest.
hash_password(salt, password) ==
    [salt |-> salt, digest |-> <<"H", salt, password>>]

\* verify(plaintext, hash): recompute under the stored salt and compare.
verify_password(password, hashed) ==
    hash_password(hashed.salt, password).digest = hashed.digest

\* issue(subject): signed claim set with sub and an absolute expiry.
create_access_token(data) ==
    [sub |-> data.sub, exp |-> now + TokenLifetime, key |-> SECRET_KEY]

\* verify(token): the subject, or no subject (401) when the signature is not
\* the server's or the expiry has passed.
decode_token(token) ==
    IF token.key = SECRET_KEY /\ now <= token.exp
    THEN Some(token.sub)
    ELSE None

\* Tokens signed with some other key.
ForgedTokens == {[sub |-> u, exp |-> MaxTime + TokenLifetime, key |-> "other-key"] :
                    u \in {"alice"}}

\* What a client can put in the Authorization header.
PresentableTokens == issued \cup ForgedTokens

-----------------------------------------------------------------------------
(* Queries *)

\* db.query(models.User).filter(models.User.username == username).first()
find_by_username(username) == {u \in users : u.username = username}

\* rows of a table in primary-key order
RECURSIVE RowsById(_)
RowsById(rows) ==
    IF rows = {} THEN <<>>
    ELSE LET r == CHOOSE x \in rows : \A y \in rows : x.id <= y.id
         IN <<r>> \o RowsById(rows \ {r})

\* get_current_user reading the subject without auth.decode_token's checks
get_current_user_unverified(token) ==
    {u \in users : u.username = token.sub}

\* get_current_user: the user the token resolves to, or none (401).
get_current_user(token) ==
    LET username == decode_token(token)
    IN {u \in users : username = Some(u.username)}

\* find_todo with the owner_id filter left out
find_todo_any_owner(todo_id, user) ==
    {t \in todos : t.id = todo_id}

\* db.query(models.Todo).filter(Todo.id == todo_id, Todo.owner_id == user.id).first()
find_todo(todo_id, user) ==
    {t \in todos : t.id = todo_id /\ t.owner_id = user.id}

\* TodoResponse (response_model): id, title, description, completed.
TodoResponse(t) ==
    [id |-> t.id, title |-> t.title, description |-> t.description,
     completed |-> t.completed]

Unwrap(opt) == CHOOSE v \in opt : TRUE

\* a worker thread with no request
Idle == [pc |-> "idle", op |-> "none", with |-> {}]

-----------------------------------------------------------------------------
(* The request handlers (src/app/main.py): the response and the tables     *)
(* after the handler's commit.                                              *)

\* Users.id: the next primary key of a table no row is deleted from.
NextUserId == Cardinality(users) + 1

\* models.User(username=..., hashed_password=auth.hash_password(password))
new_user(user, salt) ==
    [id |-> NextUserId,
     username |-> user.username,
     hashed_password |-> hash_password(salt, user.password)]

\* POST /register
register(user, salt) ==
    LET existing == find_by_username(user.username)
    IN IF existing # {}
       THEN [status |-> 400, users |-> users]
       ELSE [status |-> 200, users |-> users \cup {new_user(user, salt)}]

\* the login test without the password check
InvalidCredentials_user_only(user, form_data) ==
    user = {}

\* the condition under which /login raises 401
InvalidCredentials(user, form_data) ==
    \/ user = {}
    \/ \E u \in user : ~verify_password(form_data.password, u.hashed_password)

\* POST /login
login(form_data) ==
    LET user == find_by_username(form_data.username)
    IN IF InvalidCredentials(user, form_data)
       THEN [status |-> 401, access_token |-> None]
       ELSE [status |-> 200,
             access_token |-> Some(create_access_token([sub |-> Unwrap(user).username]))]

\* Tasks.completed: the column default (specification, section 3).
CompletedDefault == FALSE

\* Tasks.id: the primary key the table hands out is unique among its rows;
\* which one it is is left to the storage engine.
FreeIds == {id \in TodoIds : \A t \in todos : t.id # id}

\* models.Todo(**todo.dict(), owner_id=current_user.id)
new_todo(id, todo, current_user) ==
    [id |-> id, title |-> todo.title, description |-> todo.description,
     completed |-> CompletedDefault, owner_id |-> current_user.id]

\* create_todo taking the owner from the request body when it names one
create_todo_owner_from_body(token, raw, id) ==
    LET current_user == get_current_user(token)
    IN IF current_user = {}
       THEN [status |-> 401, body |-> <<>>, todos |-> todos]
       ELSE IF ~TodoCreateValid(raw)
       THEN [status |-> 422, body |-> <<>>, todos |-> todos]
       ELSE LET made == new_todo(id, TodoCreate(raw), Unwrap(current_user))
                row == IF raw.owner_id.val # None
                       THEN [made EXCEPT !.owner_id = Unwrap(raw.owner_id.val)]
                       ELSE made
            IN [status |-> 200, body |-> <<TodoResponse(row)>>,
                todos |-> todos \cup {row}]

\* POST /todos
create_todo(token, raw, id) ==
    LET current_user == get_current_user(token)
    IN IF current_user = {}
       THEN [status |-> 401, body |-> <<>>, todos |-> todos]
       ELSE IF ~TodoCreateValid(raw)
       THEN [status |-> 422, body |-> <<>>, todos |-> todos]
       ELSE LET row == new_todo(id, TodoCreate(raw), Unwrap(current_user))
            IN [status |-> 200, body |-> <<TodoResponse(row)>>,
                todos |-> todos \cup {row}]

\* db.query(models.Todo).filter(models.Todo.owner_id == current_user.id).all()
todos_of(current_user) == {t \in todos : t.owner_id = current_user.id}

\* GET /todos
get_todos(token) ==
    LET current_user == get_current_user(token)
    IN IF current_user = {}
       THEN [status |-> 401, body |-> <<>>]
       ELSE LET rows == RowsById(todos_of(Unwrap(current_user)))
            IN [status |-> 200,
                body |-> [i \in 1..Len(rows) |-> TodoResponse(rows[i])]]

\* apply_update as a full replacement: a completed flag not supplied is reset
apply_update_resets_completed(db_todo, todo) ==
    [db_todo EXCEPT
        !.title = IF todo.title # None THEN Unwrap(todo.title) ELSE @,
        !.description = IF todo.description # None THEN todo.description ELSE @,
        !.completed = IF todo.completed # None THEN Unwrap(todo.completed) ELSE FALSE]

\* apply_update with the description assigned without the `is not None` test
apply_update_clears_description(db_todo, todo) ==
    [db_todo EXCEPT
        !.title = IF todo.title # None THEN Unwrap(todo.title) ELSE @,
        !.description = todo.description,
        !.completed = IF todo.completed # None THEN Unwrap(todo.completed) ELSE @]

\* "Update only provided fields": the three `is not None` assignments.
apply_update(db_todo, todo) ==
    [db_todo EXCEPT
        !.title = IF todo.title # None THEN Unwrap(todo.title) ELSE @,
        !.description = IF todo.description # None THEN todo.description ELSE @,
        !.completed = IF todo.completed # None THEN Unwrap(todo.completed) ELSE @]

\* PUT /todos/{todo_id}
update_todo(token, todo_id, raw) ==
    LET current_user == get_current_user(token)
    IN IF current_user = {}
       THEN [status |-> 401, body |-> <<>>, todos |-> todos]
       ELSE LET db_todo == find_todo(todo_id, Unwrap(current_user))
            IN IF db_todo = {}
               THEN [status |-> 404, body |-> <<>>, todos |-> todos]
               ELSE LET row == apply_update(Unwrap(db_todo), TodoUpdate(raw))
                    IN [status |-> 200, body |-> <<TodoResponse(row)>>,
                        todos |-> (todos \ db_todo) \cup {row}]

\* delete_todo answering success when the lookup finds nothing
delete_todo_idempotent(token, todo_id) ==
    LET current_user == get_current_user(token)
    IN IF current_user = {}
       THEN [status |-> 401, todos |-> todos]
       ELSE [status |-> 200,
             todos |-> todos \ find_todo(todo_id, Unwrap(current_user))]

\* DELETE /todos/{todo_id}
delete_todo(token, todo_id) ==
    LET current_user == get_current_user(token)
    IN IF current_user = {}
       THEN [status |-> 401, todos |-> todos]
       ELSE LET db_todo == find_todo(todo_id, Unwrap(current_user))
            IN IF db_todo = {}
               THEN [status |-> 404, todos |-> todos]
               ELSE [status |-> 200, todos |-> todos \ db_todo]

-----------------------------------------------------------------------------
Init ==
    /\ users = {}
    /\ todos = {}
    /\ now = 0
    /\ issued = {}
    /\ created = {}
    /\ registered = {}
    /\ threads = [w \in Threads |-> Idle]

\* Time passes.
Tick ==
    /\ now < MaxTime
    /\ now' = now + 1
    /\ UNCHANGED <<users, todos, issued, created, registered, threads>>

\* registered records the credentials of every successful registration.
Register(bodies) ==
    \E user \in bodies, salt \in Salts :
        LET r == register(user, salt)
        IN /\ users' = r.users
           /\ registered' = IF r.status = 200 THEN registered \cup {user}
                             ELSE registered
           /\ UNCHANGED <<todos, now, issued, created, threads>>

\* The client of a user keeps the token its latest successful login returned
\* (the server keeps none: a token is checked by signature and expiry alone).
Login(bodies) ==
    \E form_data \in bodies :
        /\ issued' = LET got == login(form_data).access_token
                     IN {t \in issued : \A g \in got : t.sub # g.sub} \cup got
        /\ UNCHANGED <<users, todos, now, created, registered, threads>>

\* created records, for each task in the table, the caller whose request made it.
CreateTodo(raws) ==
    \E token \in PresentableTokens, raw \in raws, id \in FreeIds :
        LET r == create_todo(token, raw, id)
        IN /\ todos' = r.todos
           /\ created' = IF r.status = 200
                         THEN created \cup {[id |-> id, by |-> token.sub]}
                         ELSE created
           /\ UNCHANGED <<users, now, issued, registered, threads>>

GetTodos ==
    \E token \in PresentableTokens :
        /\ get_todos(token).status \in {200, 401}
        /\ UNCHANGED vars

UpdateTodo(raws) ==
    \E token \in PresentableTokens, todo_id \in TodoIds, raw \in raws :
        /\ todos' = update_todo(token, todo_id, raw).todos
        /\ UNCHANGED <<users, now, issued, created, registered, threads>>

DeleteTodo ==
    \E token \in PresentableTokens, todo_id \in TodoIds :
        LET r == delete_todo(token, todo_id)
        IN /\ todos' = r.todos
           /\ created' = IF r.status = 200
                         THEN {c \in created : c.id # todo_id}
                         ELSE created
           /\ UNCHANGED <<users, now, issued, registered, threads>>

\* Requests one after the other, the clock standing still.
OnePassword == [username : Usernames, password : {"pw1"}]

Next ==
    \/ Register(OnePassword)
    \/ Login(OnePassword)
    \/ CreateTodo(RawCreateBodies)
    \/ GetTodos
    \/ UpdateTodo(RawUpdateBodies)
    \/ DeleteTodo

Spec == Init /\ [][Next]_vars

\* The same requests with the clock running and every password; the bodies of
\* the task requests are one each.
AuthCreateBodies ==
    {raw \in RawCreateBodies :
        /\ raw.title = [present |-> TRUE, val |-> Some("t1")]
        /\ ~raw.description.present /\ ~raw.owner_id.present}

AuthUpdateBodies ==
    {raw \in RawUpdateBodies :
        /\ raw.completed = [present |-> TRUE, val |-> Some(TRUE)]
        /\ ~raw.title.present /\ ~raw.description.present}

AuthNext ==
    \/ Tick
    \/ Register(UserCreateBodies)
    \/ Login(UserCreateBodies)
    \/ CreateTodo(AuthCreateBodies)
    \/ GetTodos
    \/ UpdateTodo(AuthUpdateBodies)
    \/ DeleteTodo

AuthSpec == Init /\ [][AuthNext]_vars

-----------------------------------------------------------------------------
(* Two worker threads.  register, update_todo and delete_todo run as the   *)
(* database round trips they make: the query, the commit, the refresh.     *)
(* A thread's record holds the handler's locals between round trips and    *)
(* its response once it is done; `with` is the set of threads whose        *)
(* request was in flight at some moment of this thread's request.          *)

InFlight(w) == threads[w].pc \notin {"idle", "done"}

\* thread w takes up a request, its record becoming rec
Begin(w, rec) ==
    [x \in Threads |->
        IF x = w THEN [rec EXCEPT !.with = {o \in Threads \ {w} : InFlight(o)}]
        ELSE IF InFlight(x) THEN [threads[x] EXCEPT !.with = @ \cup {w}]
        ELSE threads[x]]

\* thread w answers
Done(w, status, body) ==
    [threads EXCEPT ![w] = [pc |-> "done", op |-> @.op, key |-> @.key,
                            status |-> status, body |-> body, with |-> @.with]]

\* register, lines 56-58: the existence query
RegisterQuery(w, bodies) ==
    /\ ~InFlight(w)
    /\ \E user \in bodies, salt \in Salts :
          LET existing == find_by_username(user.username)
              rec == [pc |-> "reg_commit", op |-> "register", key |-> user.username,
                      user |-> user, salt |-> salt, with |-> {}]
          IN IF existing # {}
             THEN threads' = [Begin(w, rec) EXCEPT
                                 ![w] = [pc |-> "done", op |-> "register",
                                         key |-> user.username, status |-> 400,
                                         body |-> <<>>, with |-> @.with]]
             ELSE threads' = Begin(w, rec)
    /\ UNCHANGED <<users, todos, now, issued, created, registered>>

\* Users.username is UNIQUE (specification, section 6): the INSERT of a
\* username that is in the table fails, and register does not catch the
\* error, which the framework answers with 500.
register_commit(user, salt) ==
    IF find_by_username(user.username) # {}
    THEN [status |-> 500, users |-> users]
    ELSE [status |-> 200, users |-> users \cup {new_user(user, salt)}]

\* register, lines 60-66: db.add(new_user); db.commit()
RegisterCommit(w) ==
    /\ threads[w].pc = "reg_commit"
    /\ LET r == register_commit(threads[w].user, threads[w].salt)
       IN /\ users' = r.users
          /\ registered' = IF r.status = 200
                           THEN registered \cup {threads[w].user} ELSE registered
          /\ threads' = Done(w, r.status, <<>>)
    /\ UNCHANGED <<todos, now, issued, created>>

\* update_todo, lines 109-114: authentication and the lookup
UpdateQuery(w, raws) ==
    /\ ~InFlight(w)
    /\ \E token \in PresentableTokens, todo_id \in TodoIds, raw \in raws :
          LET current_user == get_current_user(token)
              db_todo == IF current_user = {} THEN {}
                         ELSE find_todo(todo_id, Unwrap(current_user))
              rec == [pc |-> "upd_commit", op |-> "update", key |-> todo_id,
                      todo |-> TodoUpdate(raw), db_todo |-> db_todo, with |-> {}]
              answered(status) ==
                  [Begin(w, rec) EXCEPT
                      ![w] = [pc |-> "done", op |-> "update", key |-> todo_id,
                              status |-> status, body |-> <<>>, with |-> @.with]]
          IN threads' = IF current_user = {} THEN answered(401)
                        ELSE IF db_todo = {} THEN answered(404)
                        ELSE Begin(w, rec)
    /\ UNCHANGED <<users, todos, now, issued, created, registered>>

\* the columns the unit of work writes: those whose value the handler changed
DirtyColumns(loaded, target) ==
    {c \in {"title", "description", "completed"} : target[c] # loaded[c]}

\* update_todo, lines 116-124: the assignments and db.commit().  The UPDATE
\* addresses the row by primary key and sets the changed columns; when the
\* row is gone the ORM raises (no row matched), which is answered with 500.
update_commit(db_todo, todo) ==
    LET target == apply_update(db_todo, todo)
        dirty == DirtyColumns(db_todo, target)
        rows == {t \in todos : t.id = db_todo.id}
    IN IF dirty = {} THEN [ok |-> TRUE, todos |-> todos]
       ELSE IF rows = {} THEN [ok |-> FALSE, todos |-> todos]
       ELSE [ok |-> TRUE,
             todos |-> (todos \ rows) \cup
                 {[c \in DOMAIN t |-> IF c \in dirty THEN target[c] ELSE t[c]] :
                     t \in rows}]

UpdateCommit(w) ==
    /\ threads[w].pc = "upd_commit"
    /\ LET r == update_commit(Unwrap(threads[w].db_todo), threads[w].todo)
       IN /\ todos' = r.todos
          /\ threads' = IF r.ok THEN [threads EXCEPT ![w].pc = "upd_refresh"]
                        ELSE Done(w, 500, <<>>)
    /\ UNCHANGED <<users, now, issued, created, registered>>

\* update_todo, lines 125-126: db.refresh(db_todo) reads the row again by
\* primary key and raises when it is gone (500); else the row is returned.
update_refresh(db_todo) ==
    LET rows == {t \in todos : t.id = db_todo.id}
    IN IF rows = {} THEN [status |-> 500, body |-> <<>>]
       ELSE [status |-> 200, body |-> <<TodoResponse(Unwrap(rows))>>]

UpdateRefresh(w) ==
    /\ threads[w].pc = "upd_refresh"
    /\ LET r == update_refresh(Unwrap(threads[w].db_todo))
       IN threads' = Done(w, r.status, r.body)
    /\ UNCHANGED <<users, todos, now, issued, created, registered>>

\* delete_todo, lines 134-139: authentication and the lookup
DeleteQuery(w) ==
    /\ ~InFlight(w)
    /\ \E token \in PresentableTokens, todo_id \in TodoIds :
          LET current_user == get_current_user(token)
              db_todo == IF current_user = {} THEN {}
                         ELSE find_todo(todo_id, Unwrap(current_user))
              rec == [pc |-> "del_commit", op |-> "delete", key |-> todo_id,
                      db_todo |-> db_todo, with |-> {}]
              answered(status) ==
                  [Begin(w, rec) EXCEPT
                      ![w] = [pc |-> "done", op |-> "delete", key |-> todo_id,
                              status |-> status, body |-> <<>>, with |-> @.with]]
          IN threads' = IF current_user = {} THEN answered(401)
                        ELSE IF db_todo = {} THEN answered(404)
                        ELSE Begin(w, rec)
    /\ UNCHANGED <<users, todos, now, issued, created, registered>>

\* delete_todo, lines 141-143: db.delete(db_todo); db.commit().  The DELETE
\* addresses the row by primary key; a row already gone is not an error.
DeleteCommit(w) ==
    /\ threads[w].pc = "del_commit"
    /\ LET id == Unwrap(threads[w].db_todo).id
       IN /\ todos' = {t \in todos : t.id # id}
          /\ created' = {c \in created : c.id # id}
    /\ threads' = Done(w, 200, <<>>)
    /\ UNCHANGED <<users, now, issued, registered>>

ConcNext ==
    \/ Login(OnePassword)
    \/ CreateTodo(AuthCreateBodies)
    \/ \E w \in Threads :
          \/ RegisterQuery(w, OnePassword)
          \/ RegisterCommit(w)
          \/ UpdateQuery(w, AuthUpdateBodies)
          \/ UpdateCommit(w)
          \/ UpdateRefresh(w)
          \/ DeleteQuery(w)
          \/ DeleteCommit(w)

ConcSpec == Init /\ [][ConcNext]_vars

-----------------------------------------------------------------------------
(* Properties of the handlers, requests one after the other *)

\* the tokens get_current_user resolves to a user
Authenticated == {token \in PresentableTokens : get_current_user(token) # {}}

\* the caller a token authenticates
Caller(token) == Unwrap(get_current_user(token))

\* the tasks in the table that the bearer of the token created
CreatedBy(token) ==
    {t \in todos : [id |-> t.id, by |-> token.sub] \in created}

Range(seq) == {seq[i] : i \in 1..Len(seq)}

\* C1: a task created by user A is never in the list returned to another
\* user B, and an update or delete of it by B is answered 404 and leaves the
\* table (so the task's fields, owner and existence) as it was.
C1_OwnershipIsolation ==
    \A token \in Authenticated, t \in todos :
        t \notin CreatedBy(token) =>
            /\ \A item \in Range(get_todos(token).body) : item.id # t.id
            /\ \A raw \in RawUpdateBodies :
                  LET r == update_todo(token, t.id, raw)
                  IN r.status = 404 /\ r.todos = todos
            /\ LET r == delete_todo(token, t.id)
               IN r.status = 404 /\ r.todos = todos

\* two users hold a valid token and a task each; the update {completed: true}
\* one of them sends for the other's task is answered 404
C1_Witness ==
    \E token \in Authenticated, t \in todos :
        /\ t \notin CreatedBy(token)
        /\ t.owner_id # Caller(token).id
        /\ CreatedBy(token) # {}
        /\ \A item \in Range(get_todos(token).body) : item.id # t.id
        /\ \E raw \in RawUpdateBodies :
              /\ raw.completed.val = Some(TRUE)
              /\ update_todo(token, t.id, raw).status = 404

\* the value a JSON member supplies, if it supplies one
Supplied(member) == member.present /\ member.val # None

\* C3: a successful update sets exactly the supplied fields to the supplied
\* values; the fields not supplied, the id and the owner of the task and
\* every other task stay as they were (the handler returns no users table:
\* user records are out of its reach).
C3_PartialUpdate ==
    \A token \in PresentableTokens, todo_id \in TodoIds, raw \in RawUpdateBodies :
        LET r == update_todo(token, todo_id, raw)
        IN r.status = 200 =>
            \E old \in todos, new \in r.todos :
                /\ old.id = todo_id /\ new.id = todo_id
                /\ r.todos \ {new} = todos \ {old}
                /\ new.owner_id = old.owner_id
                /\ new.title = IF Supplied(raw.title)
                               THEN Unwrap(raw.title.val) ELSE old.title
                /\ new.description = IF Supplied(raw.description)
                                     THEN raw.description.val ELSE old.description
                /\ new.completed = IF Supplied(raw.completed)
                                   THEN Unwrap(raw.completed.val) ELSE old.completed
                /\ r.body = <<TodoResponse(new)>>

\* two tasks are stored, and the body {completed: true} sent by the owner of
\* a task not yet completed is answered 200
C3_Witness ==
    /\ Cardinality(todos) >= 2
    /\ \E token \in Authenticated, t \in todos :
          /\ ~t.completed /\ t.title = "t1" /\ t.description = Some("d1")
          /\ update_todo(token, t.id,
                 [title |-> [present |-> FALSE, val |-> None],
                  description |-> [present |-> FALSE, val |-> None],
                  completed |-> [present |-> TRUE, val |-> Some(TRUE)]]).status = 200

\* C4: every stored task has a non-empty title.
C4_TitleNonEmpty == \A t \in todos : t.title # ""

\* an id that is not in the table: 404 to every authenticated caller, and
\* nothing changes
C6_MissingIdState ==
    \A token \in Authenticated, todo_id \in TodoIds :
        (\A t \in todos : t.id # todo_id) =>
            /\ \A raw \in RawUpdateBodies :
                  LET r == update_todo(token, todo_id, raw)
                  IN r.status = 404 /\ r.todos = todos
            /\ LET r == delete_todo(token, todo_id)
               IN r.status = 404 /\ r.todos = todos

\* a step that is a successful delete of an id: the id is gone, and the same
\* delete in the state it leaves is answered 404
C6_SecondDelete ==
    \A token \in PresentableTokens, todo_id \in TodoIds :
        (delete_todo(token, todo_id).status = 200
            /\ todos' = delete_todo(token, todo_id).todos
            /\ UNCHANGED <<users, now, issued>>)
        => /\ \A t \in todos' : t.id # todo_id
           /\ delete_todo(token, todo_id)'.status = 404
           /\ delete_todo(token, todo_id)'.todos = todos'

\* C6: an update or delete of an id that is not in the table is answered 404
\* to every authenticated caller and changes nothing; after a successful
\* delete of a task the same delete sent again is answered 404.
C6_NotFound == []C6_MissingIdState /\ [][C6_SecondDelete]_vars

\* id 1 is not in the table while its caller owns the task with id 2: the
\* caller's delete and update of id 1 are answered 404
C6_Witness ==
    \E token \in Authenticated, raw \in RawUpdateBodies :
        /\ \A t \in todos : t.id # 1
        /\ \E t \in CreatedBy(token) : t.id = 2
        /\ raw.title.val = Some("t1")
        /\ update_todo(token, 1, raw).status = 404
        /\ delete_todo(token, 1).status = 404

\* the body with every explicit null taken out
WithoutNulls(raw) ==
    [f \in DOMAIN raw |->
        IF raw[f].val = None THEN [present |-> FALSE, val |-> None] ELSE raw[f]]

\* C7: update cannot clear a field: a body with explicit nulls is handled as
\* the body without them, a description that is not null is not null after
\* the update, and title and completed stay a string and a boolean.
C7_NoClearing ==
    \A token \in PresentableTokens, todo_id \in TodoIds, raw \in RawUpdateBodies :
        LET r == update_todo(token, todo_id, raw)
        IN /\ r = update_todo(token, todo_id, WithoutNulls(raw))
           /\ \A old \in todos, new \in r.todos :
                 (old.id = new.id /\ old.description # None)
                     => new.description # None
           /\ \A new \in r.todos :
                 new.title \in Titles /\ new.completed \in BOOLEAN

\* a task with a description, whose owner sends {description: null}
C7_Witness ==
    \E token \in Authenticated, t \in todos :
        /\ t.description # None
        /\ update_todo(token, t.id,
               [title |-> [present |-> FALSE, val |-> None],
                description |-> [present |-> TRUE, val |-> None],
                completed |-> [present |-> FALSE, val |-> None]]).status = 200

\* C9: a created task is stored with completed = false and the caller as its
\* owner, whatever the body says; the list returned to a caller is exactly
\* the tasks that caller created and has not deleted, each once.
C9_CreateThenList ==
    /\ \A token \in PresentableTokens, raw \in RawCreateBodies, id \in FreeIds :
          LET r == create_todo(token, raw, id)
          IN r.status = 200 =>
                \E row \in r.todos :
                    /\ row.id = id
                    /\ r.todos = todos \cup {row}
                    /\ row.completed = FALSE
                    /\ row.owner_id = Caller(token).id
                    /\ r.body = <<TodoResponse(row)>>
    /\ \A token \in Authenticated :
          LET r == get_todos(token)
          IN /\ r.status = 200
             /\ Range(r.body) = {TodoResponse(t) : t \in CreatedBy(token)}
             /\ Len(r.body) = Cardinality(CreatedBy(token))
             /\ \A t \in todos : t.owner_id = Caller(token).id <=> t \in CreatedBy(token)

\* one task, not completed, created by a caller to whom it is listed, while
\* the other user holds a token too
C9_Witness ==
    \E token \in Authenticated :
        /\ Cardinality(todos) = 1
        /\ Len(get_todos(token).body) = 1
        /\ get_todos(token).body[1].completed = FALSE
        /\ \E other \in Authenticated : other.sub # token.sub

-----------------------------------------------------------------------------
(* Properties of authentication, the clock running *)

Expired(token) == now > token.exp

\* every protected request bearing the token is answered 401 and commits nothing
RejectedEverywhere(token) ==
    /\ \A raw \in RawCreateBodies, id \in FreeIds :
          LET r == create_todo(token, raw, id)
          IN r.status = 401 /\ r.todos = todos
    /\ get_todos(token) = [status |-> 401, body |-> <<>>]
    /\ \A todo_id \in TodoIds :
          /\ \A raw \in RawUpdateBodies :
                LET r == update_todo(token, todo_id, raw)
                IN r.status = 401 /\ r.todos = todos
          /\ LET r == delete_todo(token, todo_id)
             IN r.status = 401 /\ r.todos = todos

\* every token the server's key can have signed, held by a client or not
SignedTokens ==
    [sub : Usernames, exp : 0..(MaxTime + TokenLifetime), key : {SECRET_KEY}]

\* in every state, an expired token is refused by all four handlers
C8_Rejected ==
    \A token \in SignedTokens : Expired(token) => RejectedEverywhere(token)

\* in every step, an expired token stays expired and resolves to no user
C8_StaysExpired ==
    \A token \in SignedTokens :
        Expired(token) => (Expired(token)' /\ get_current_user(token)' = {})

\* C8: create, list, update and delete bearing a token whose expiry has passed
\* are answered 401 and leave the tables as they were, and a token that has
\* expired is not authenticated in any later state.
C8_ExpiredToken == []C8_Rejected /\ [][C8_StaysExpired]_vars

\* a user who created a task holds a token that has since expired, and the
\* update of that task bearing it is answered 401
C8_Witness ==
    \E token \in issued, t \in todos, raw \in AuthUpdateBodies :
        /\ Expired(token)
        /\ t \in CreatedBy(token)
        /\ update_todo(token, t.id, raw).status = 401
        /\ delete_todo(token, t.id).status = 401

\* what /login answers to a form, given the registrations so far
C10_LoginAnswer ==
    \A form_data \in UserCreateBodies :
        LET r == login(form_data)
        IN IF form_data \in registered
           THEN /\ r.status = 200
                /\ \E token \in r.access_token :
                      /\ token.sub = form_data.username
                      /\ \E u \in get_current_user(token) :
                            u.username = form_data.username
           ELSE r = [status |-> 401, access_token |-> None]

\* a login step leaves both tables as they were
C10_LoginReadsOnly ==
    Login(UserCreateBodies) => (users' = users /\ todos' = todos)

\* C10: once register(u, p) has succeeded, login(u, p) is answered 200 with a
\* bearer token whose subject is u; login(u, q) with q # p and login with a
\* username never registered are answered 401 without a token; login changes
\* neither table.
C10_RegisterLoginRoundTrip == []C10_LoginAnswer /\ [][C10_LoginReadsOnly]_vars

\* alice is registered and bob is not: alice's password is accepted, her other
\* password and bob are refused
C10_Witness ==
    \E form_data \in registered, q \in Passwords, other \in Usernames :
        /\ q # form_data.password
        /\ find_by_username(other) = {}
        /\ login(form_data).status = 200
        /\ login([form_data EXCEPT !.password = q]).status = 401
        /\ login([username |-> other, password |-> form_data.password]).status = 401

-----------------------------------------------------------------------------
(* Properties of requests that interleave *)

Answered(w, op) == threads[w].pc = "done" /\ threads[w].op = op

\* the requests of w and v overlapped in time
Overlapped(w, v) == w # v /\ v \in threads[w].with /\ w \in threads[v].with

\* C2: of two register requests with the same username, one after the other
\* or interleaved, one creates the user and the other is answered 400 and
\* adds nothing; no two user records share a username.
C2_RegisterRace ==
    /\ \A w \in Threads : Answered(w, "register") => threads[w].status \in {200, 400}
    /\ \A w, v \in Threads :
          (/\ Overlapped(w, v)
           /\ Answered(w, "register") /\ Answered(v, "register")
           /\ threads[w].key = threads[v].key
           /\ threads[w].status = 200)
          => threads[v].status = 400
    /\ \A u1, u2 \in users : u1.username = u2.username => u1 = u2

\* C5: an update and a delete of the same task, both authenticated, that
\* overlap end as one of the two serial orders does: the update is answered 200 with the updated task
\* and the delete 200, or the delete is answered 200 and the update 404.
C5_UpdateDeleteSerial ==
    \A u, d \in Threads :
        (/\ Overlapped(u, d)
         /\ Answered(u, "update") /\ Answered(d, "delete")
         /\ threads[u].key = threads[d].key
         /\ threads[u].status # 401
         /\ threads[d].status = 200)
        => \/ threads[u].status = 404
           \/ /\ threads[u].status = 200
              /\ Len(threads[u].body) = 1
              /\ threads[u].body[1].id = threads[u].key
              /\ threads[u].body[1].completed

=============================================================================
